---- MODULE Spec2Model ----
(***************************************************************************)
(* Model of the basic-algebra teaching notebooks:                          *)
(*   - the Hamming code notebook (calculate_parity_bits,                   *)
(*     position_parity_bits, calculate_parity_values,                      *)
(*     detect_correct_error, remove_parity_bits, add_noise, demo cell),    *)
(*   - 08_encode_decode.ipynb (run-length encode / decode),                *)
(*   - 10_diffie_hellman.ipynb (generate_keys, EavesdropData).             *)
(* Strings are sequences of one-character strings.                         *)
(***************************************************************************)
EXTENDS Integers, Sequences, FiniteSets, TLC

VARIABLES
    \* ---- calculate_parity_bits, run one loop iteration at a time
    cpb_m, cpb_p, cpb_iters, cpb_pc,
    \* ---- the Hamming demo cell
    original_data, p, positioned_data, hamming_code, received_code,
    noise_count, error_pos, report, corrected_code, decoded_data, hpc,
    \* ---- calculate_parity_values applied again and again to one bit string
    pv_p, pv_input, pv_code, pv_passes,
    \* ---- run-length encoding
    rle_input, rle_text, rle_ops,
    \* ---- Diffie-Hellman simulation
    key_size, a_private_key, b_private_key, a_output, b_output,
    a_public_key, b_public_key, a_pk_found, b_pk_found, brute_forced,
    break_time_set, dpc

cpbvars == <<cpb_m, cpb_p, cpb_iters, cpb_pc>>
hvars == <<original_data, p, positioned_data, hamming_code, received_code,
           noise_count, error_pos, report, corrected_code, decoded_data, hpc>>
pvvars == <<pv_p, pv_input, pv_code, pv_passes>>
rvars == <<rle_input, rle_text, rle_ops>>
dvars == <<key_size, a_private_key, b_private_key, a_output, b_output,
           a_public_key, b_public_key, a_pk_found, b_pk_found, brute_forced,
           break_time_set, dpc>>
vars == <<cpbvars, hvars, pvvars, rvars, dvars>>

(***************************************************************************)
(* Bounds of the model                                                     *)
(***************************************************************************)
MaxM == 2050            \* largest number of data bits given to calculate_parity_bits
MaxDataLen == 5         \* longest data string of the Hamming demo
MaxNoise == 2           \* how many times add_noise may hit one codeword
MaxPasses == 2          \* how many times calculate_parity_values is applied in a row
MaxTextLen == 10        \* longest digit-free text given to encode / decode
MaxEncLen == 4          \* longest text with digits given to encode / decode
MaxCountDigits == 2     \* longest run of digits in a text given to encode / decode
MaxOps == 2             \* how many times encode / decode are applied in a row
MaxKeySize == 5         \* largest key size (in decimal digits) that is generated
MaxEavesKey == 7        \* largest small private key behind the eavesdropped data
MaxDraws == 6           \* how many of the smallest random numbers of a size are drawn

(***************************************************************************)
(* Python primitives used by the notebooks                                 *)
(***************************************************************************)
\* int(c) for a one-character string holding a decimal digit
DigitChars == <<"0", "1", "2", "3", "4", "5", "6", "7", "8", "9">>

IsDigit(c) == \E i \in 1..10 : DigitChars[i] = c

IntOfChar(c) == (CHOOSE i \in 1..10 : DigitChars[i] = c) - 1

\* str(v) for one decimal digit v
StrOfDigit(v) == DigitChars[v + 1]

\* s[::-1]
RECURSIVE Reverse(_)
Reverse(s) == IF s = << >> THEN << >> ELSE Append(Reverse(Tail(s)), Head(s))

\* normalisation of a slice bound: negative bounds count from the end,
\* then the bound is clamped to 0..len
SliceBound(len, i) ==
    LET k == IF i < 0 THEN i + len ELSE i
    IN  IF k < 0 THEN 0 ELSE IF k > len THEN len ELSE k

\* s[:e]
SliceTo(s, e) == SubSeq(s, 1, SliceBound(Len(s), e))

\* s[b:]
SliceFrom(s, b) == SubSeq(s, SliceBound(Len(s), b) + 1, Len(s))

\* s[i] is defined for -len <= i < len, IndexError otherwise
IndexOk(s, i) == i >= -Len(s) /\ i < Len(s)

\* s[i] (0-based, negative indexes count from the end)
Index(s, i) == IF i < 0 THEN s[Len(s) + i + 1] ELSE s[i + 1]

\* j & (2 ** i) == (2 ** i)
BitSet(j, i) == (j \div (2 ^ i)) % 2 = 1

\* a ^ b on single bits
Xor(a, b) == (a + b) % 2

\* what a function leaves behind when an indexing raises
IndexError == <<"IndexError">>

(***************************************************************************)
(* calculate_parity_bits                                                   *)
(***************************************************************************)
ParityLimit == 10

\* a variant of the loop condition with <= for <
CpbLoopCond_le(m, pp) == (2 ^ pp) <= m + pp + 1

\* the loop condition  (2 ** p) < m + p + 1
CpbLoopCond(m, pp) == (2 ^ pp) < m + pp + 1

\* a variant of the loop body without the bound check
CpbTooMany_never(pp) == FALSE

\* a variant of the bound check with >= for >
CpbTooMany_ge(pp) == pp >= ParityLimit

\* the check made after the increment
CpbTooMany(pp) == pp > ParityLimit

\* the whole function; -1 stands for the ValueError
RECURSIVE CpbFrom(_, _)
CpbFrom(m, pp) ==
    IF CpbLoopCond(m, pp)
    THEN IF CpbTooMany(pp + 1) THEN -1 ELSE CpbFrom(m, pp + 1)
    ELSE pp

calculate_parity_bits(m) == CpbFrom(m, 0)

(***************************************************************************)
(* position_parity_bits                                                    *)
(***************************************************************************)
\* a variant of the loop that takes the data bits from the front, data[k-1]
RECURSIVE PpbLoop_forward(_, _, _, _, _, _)
PpbLoop_forward(data, pp, i, j, k, result) ==
    IF i > Len(data) + pp
    THEN Reverse(result)
    ELSE IF i = 2 ^ j
         THEN PpbLoop_forward(data, pp, i + 1, j + 1, k, Append(result, "0"))
         ELSE IF ~IndexOk(data, k - 1)
              THEN IndexError
              ELSE PpbLoop_forward(data, pp, i + 1, j, k + 1,
                                   Append(result, Index(data, k - 1)))

\* the loop for i in range(1, m + p + 1), then result[::-1]
RECURSIVE PpbLoop(_, _, _, _, _, _)
PpbLoop(data, pp, i, j, k, result) ==
    IF i > Len(data) + pp
    THEN Reverse(result)
    ELSE IF i = 2 ^ j
         THEN PpbLoop(data, pp, i + 1, j + 1, k, Append(result, "0"))
         ELSE IF ~IndexOk(data, -k)
              THEN IndexError
              ELSE PpbLoop(data, pp, i + 1, j, k + 1,
                           Append(result, Index(data, -k)))

position_parity_bits(data, pp) == PpbLoop(data, pp, 1, 0, 1, << >>)

(***************************************************************************)
(* calculate_parity_values                                                 *)
(***************************************************************************)
\* a variant of the inner loop that tests bit i of the 0-based position j - 1
RECURSIVE ParityOf_zero_based(_, _, _, _)
ParityOf_zero_based(code, i, j, val) ==
    IF j > Len(code)
    THEN val
    ELSE IF BitSet(j - 1, i)
         THEN ParityOf_zero_based(code, i, j + 1,
                                  Xor(val, IntOfChar(Index(code, -j))))
         ELSE ParityOf_zero_based(code, i, j + 1, val)

\* a variant of the inner loop that leaves the parity position 2 ** i itself
\* out of the XOR
RECURSIVE ParityOf_others(_, _, _, _)
ParityOf_others(code, i, j, val) ==
    IF j > Len(code)
    THEN val
    ELSE IF BitSet(j, i) /\ j # 2 ^ i
         THEN ParityOf_others(code, i, j + 1,
                              Xor(val, IntOfChar(Index(code, -j))))
         ELSE ParityOf_others(code, i, j + 1, val)

\* the inner loop: XOR of int(code[-j]) over j in from..n with bit i set
RECURSIVE ParityOf(_, _, _, _)
ParityOf(code, i, j, val) ==
    IF j > Len(code)
    THEN val
    ELSE IF BitSet(j, i)
         THEN ParityOf(code, i, j + 1, Xor(val, IntOfChar(Index(code, -j))))
         ELSE ParityOf(code, i, j + 1, val)

\* a variant that builds nothing new and leaves the placeholder in place
SetParity_keep(code, i, val) == code

\* code[:n-(2**i)] + str(val) + code[n-(2**i)+1:]
SetParity(code, i, val) ==
    LET n == Len(code)
    IN  SliceTo(code, n - (2 ^ i)) \o <<StrOfDigit(val)>>
          \o SliceFrom(code, n - (2 ^ i) + 1)

RECURSIVE CpvLoop(_, _, _)
CpvLoop(code, pp, i) ==
    IF i >= pp
    THEN code
    ELSE CpvLoop(SetParity(code, i, ParityOf(code, i, 1, 0)), pp, i + 1)

\* a variant whose outer loop starts at 1 and leaves the first parity bit out
calculate_parity_values_from1(code, pp) == CpvLoop(code, pp, 1)

\* for i in range(p), starting from the code with its placeholders
calculate_parity_values(code, pp) == CpvLoop(code, pp, 0)

(***************************************************************************)
(* detect_correct_error                                                    *)
(***************************************************************************)
\* a variant of the first loop that leaves out the last parity check
RECURSIVE ErrorPos_short(_, _, _, _)
ErrorPos_short(code, pp, i, acc) ==
    IF i + 1 >= pp
    THEN acc
    ELSE ErrorPos_short(code, pp, i + 1,
                        acc + ParityOf(code, i, 1, 0) * (2 ^ i))

\* a variant of the first loop that adds val without its weight 2 ** i
RECURSIVE ErrorPos_unweighted(_, _, _, _)
ErrorPos_unweighted(code, pp, i, acc) ==
    IF i >= pp
    THEN acc
    ELSE ErrorPos_unweighted(code, pp, i + 1, acc + ParityOf(code, i, 1, 0))

\* the first loop: error_pos += val * (2 ** i)
RECURSIVE ErrorPos(_, _, _, _)
ErrorPos(code, pp, i, acc) ==
    IF i >= pp
    THEN acc
    ELSE ErrorPos(code, pp, i + 1, acc + ParityOf(code, i, 1, 0) * (2 ^ i))

\* code[:n - error_pos] + str(1 - int(code[n - error_pos])) + code[n - error_pos + 1:]
FlipAt(code, idx) ==
    IF ~IndexOk(code, idx)
    THEN IndexError
    ELSE SliceTo(code, idx)
           \o <<StrOfDigit(1 - IntOfChar(Index(code, idx)))>>
           \o SliceFrom(code, idx + 1)

\* a variant that inverts the parity bit of every failing check instead of
\* the bit at the error position
RECURSIVE FixParityBits(_, _, _, _)
FixParityBits(code, pp, i, fixed) ==
    IF i >= pp
    THEN fixed
    ELSE FixParityBits(code, pp, i + 1,
                       IF ParityOf(code, i, 1, 0) = 1
                       THEN FlipAt(fixed, Len(code) - (2 ^ i))
                       ELSE fixed)

detect_correct_error_parity_fix(code, pp) ==
    LET ep == ErrorPos(code, pp, 0, 0)
    IN  IF ep # 0
        THEN [error_pos |-> ep, report |-> "Error found",
              code |-> FixParityBits(code, pp, 0, code)]
        ELSE [error_pos |-> ep, report |-> "No error detected", code |-> code]

\* a variant that counts the error position from the left end
detect_correct_error_left(code, pp) ==
    LET ep == ErrorPos(code, pp, 0, 0)
    IN  IF ep # 0
        THEN [error_pos |-> ep, report |-> "Error found",
              code |-> FlipAt(code, ep - 1)]
        ELSE [error_pos |-> ep, report |-> "No error detected", code |-> code]

detect_correct_error(code, pp) ==
    LET n == Len(code)
        ep == ErrorPos(code, pp, 0, 0)
    IN  IF ep # 0
        THEN [error_pos |-> ep, report |-> "Error found",
              code |-> FlipAt(code, n - ep)]
        ELSE [error_pos |-> ep, report |-> "No error detected", code |-> code]

(***************************************************************************)
(* remove_parity_bits                                                      *)
(***************************************************************************)
\* a variant without the reversal of the positions: [2**i for i in range(p)]
ParityPositions_unreversed(code_len, pp) == {2 ^ i : i \in 0..(pp - 1)}

\* [code_len - 2**i for i in range(p)]
ParityPositions(code_len, pp) == {code_len - (2 ^ i) : i \in 0..(pp - 1)}

RECURSIVE RpbLoop(_, _, _, _)
RpbLoop(code, positions, i, decoded) ==
    IF i >= Len(code)
    THEN decoded
    ELSE IF i \notin positions
         THEN RpbLoop(code, positions, i + 1, Append(decoded, Index(code, i)))
         ELSE RpbLoop(code, positions, i + 1, decoded)

remove_parity_bits(code, pp) ==
    RpbLoop(code, ParityPositions(Len(code), pp), 0, << >>)

(***************************************************************************)
(* add_noise: the bit at noise_position inverted                           *)
(***************************************************************************)
\* a variant whose last slice starts at noise_position and keeps the old bit
add_noise_keep(code, noise_position) ==
    SliceTo(code, noise_position)
      \o <<StrOfDigit(1 - IntOfChar(Index(code, noise_position)))>>
      \o SliceFrom(code, noise_position)

add_noise(code, noise_position) ==
    SliceTo(code, noise_position)
      \o <<StrOfDigit(1 - IntOfChar(Index(code, noise_position)))>>
      \o SliceFrom(code, noise_position + 1)

(***************************************************************************)
(* Values of the variables of a notebook that is not being run             *)
(***************************************************************************)
CpbIdle ==
    /\ cpb_m = 0
    /\ cpb_p = 0
    /\ cpb_iters = 0
    /\ cpb_pc = "idle"

HIdle ==
    /\ original_data = << >>
    /\ p = 0
    /\ positioned_data = << >>
    /\ hamming_code = << >>
    /\ received_code = << >>
    /\ noise_count = 0
    /\ error_pos = 0
    /\ report = ""
    /\ corrected_code = << >>
    /\ decoded_data = << >>
    /\ hpc = "idle"

PvIdle ==
    /\ pv_p = 0
    /\ pv_input = << >>
    /\ pv_code = << >>
    /\ pv_passes = 0

RIdle ==
    /\ rle_input = << >>
    /\ rle_text = << >>
    /\ rle_ops = <<"idle">>

DIdle ==
    /\ key_size = 0
    /\ a_private_key = 0
    /\ b_private_key = 0
    /\ a_output = 0
    /\ b_output = 0
    /\ a_public_key = 0
    /\ b_public_key = 0
    /\ a_pk_found = 0
    /\ b_pk_found = 0
    /\ brute_forced = FALSE
    /\ break_time_set = FALSE
    /\ dpc = "idle"

(***************************************************************************)
(* calculate_parity_bits, one loop iteration per step                      *)
(***************************************************************************)
InitCpb ==
    /\ cpb_m \in 0..MaxM
    /\ cpb_p = 0
    /\ cpb_iters = 0
    /\ cpb_pc = "loop"
    /\ HIdle /\ PvIdle /\ RIdle /\ DIdle

\* the loop body runs and the bound check passes
CpbIterate ==
    /\ cpb_pc = "loop"
    /\ CpbLoopCond(cpb_m, cpb_p)
    /\ ~CpbTooMany(cpb_p + 1)
    /\ cpb_p' = cpb_p + 1
    /\ cpb_iters' = cpb_iters + 1
    /\ UNCHANGED <<cpb_m, cpb_pc>>

\* the loop body runs and raises ValueError("Too many parity bits required.")
CpbRaise ==
    /\ cpb_pc = "loop"
    /\ CpbLoopCond(cpb_m, cpb_p)
    /\ CpbTooMany(cpb_p + 1)
    /\ cpb_p' = cpb_p + 1
    /\ cpb_iters' = cpb_iters + 1
    /\ cpb_pc' = "raised"
    /\ UNCHANGED cpb_m

\* the loop condition fails: return p
CpbReturn ==
    /\ cpb_pc = "loop"
    /\ ~CpbLoopCond(cpb_m, cpb_p)
    /\ cpb_pc' = "returned"
    /\ UNCHANGED <<cpb_m, cpb_p, cpb_iters>>

(***************************************************************************)
(* The Hamming demo cell                                                   *)
(***************************************************************************)
Bit == {"0", "1"}

BitStrings(len) == [1..len -> Bit]

\* the positions (1-based) in which two strings of equal length differ
Diff(s, t) == {i \in 1..Len(s) : s[i] # t[i]}

InitHamming ==
    /\ \E len \in 0..MaxDataLen : original_data \in BitStrings(len)
    /\ p = 0
    /\ positioned_data = << >>
    /\ hamming_code = << >>
    /\ received_code = << >>
    /\ noise_count = 0
    /\ error_pos = 0
    /\ report = ""
    /\ corrected_code = << >>
    /\ decoded_data = << >>
    /\ hpc = "start"
    /\ CpbIdle /\ PvIdle /\ RIdle /\ DIdle

\* p = calculate_parity_bits(m)
CalcParityBits ==
    /\ hpc = "start"
    /\ p' = calculate_parity_bits(Len(original_data))
    /\ hpc' = IF p' = -1 THEN "raised" ELSE "position"
    /\ UNCHANGED <<original_data, positioned_data, hamming_code, received_code,
                   noise_count, error_pos, report, corrected_code, decoded_data>>

\* positioned_data = position_parity_bits(original_data, p)
PositionParityBits ==
    /\ hpc = "position"
    /\ positioned_data' = position_parity_bits(original_data, p)
    /\ hpc' = IF positioned_data' = IndexError THEN "raised" ELSE "parity"
    /\ UNCHANGED <<original_data, p, hamming_code, received_code,
                   noise_count, error_pos, report, corrected_code, decoded_data>>

\* hamming_code = calculate_parity_values(positioned_data, p); the code is sent
CalculateParityValues ==
    /\ hpc = "parity"
    /\ hamming_code' = calculate_parity_values(positioned_data, p)
    /\ received_code' = hamming_code'
    /\ hpc' = "channel"
    /\ UNCHANGED <<original_data, p, positioned_data,
                   noise_count, error_pos, report, corrected_code, decoded_data>>

\* received_code = add_noise(...): random.randint(0, len(code)-1) picks the
\* position; it raises ValueError on an empty code
AddNoise ==
    /\ hpc = "channel"
    /\ noise_count < MaxNoise
    /\ IF Len(received_code) = 0
       THEN /\ hpc' = "raised"
            /\ UNCHANGED <<received_code, noise_count>>
       ELSE /\ \E noise_position \in 0..(Len(received_code) - 1) :
                   received_code' = add_noise(received_code, noise_position)
            /\ noise_count' = noise_count + 1
            /\ UNCHANGED hpc
    /\ UNCHANGED <<original_data, p, positioned_data, hamming_code,
                   error_pos, report, corrected_code, decoded_data>>

\* corrected_code = detect_correct_error(received_code, p)
DetectCorrectError ==
    /\ hpc = "channel"
    /\ LET r == detect_correct_error(received_code, p)
       IN  /\ error_pos' = r.error_pos
           /\ report' = r.report
           /\ corrected_code' = r.code
           /\ hpc' = IF r.code = IndexError THEN "raised" ELSE "corrected"
    /\ UNCHANGED <<original_data, p, positioned_data, hamming_code,
                   received_code, noise_count, decoded_data>>

\* decoded_data = remove_parity_bits(corrected_code, p)
RemoveParityBits ==
    /\ hpc = "corrected"
    /\ decoded_data' = remove_parity_bits(corrected_code, p)
    /\ hpc' = "done"
    /\ UNCHANGED <<original_data, p, positioned_data, hamming_code,
                   received_code, noise_count, error_pos, report, corrected_code>>

(***************************************************************************)
(* calculate_parity_values applied to any bit string of a code's length    *)
(***************************************************************************)
InitPv ==
    /\ \E m \in 0..MaxDataLen :
          /\ pv_p = calculate_parity_bits(m)
          /\ pv_input \in BitStrings(m + calculate_parity_bits(m))
    /\ pv_code = pv_input
    /\ pv_passes = 0
    /\ CpbIdle /\ HIdle /\ RIdle /\ DIdle

\* code = calculate_parity_values(code, p)
ParityValuesPass ==
    /\ pv_passes < MaxPasses
    /\ pv_code' = calculate_parity_values(pv_code, pv_p)
    /\ pv_passes' = pv_passes + 1
    /\ UNCHANGED <<pv_p, pv_input>>

(***************************************************************************)
(* Run-length encoding: encode / decode                                    *)
(***************************************************************************)
\* str(n) for n >= 0
RECURSIVE IntToStr(_)
IntToStr(n) ==
    IF n < 10
    THEN <<StrOfDigit(n)>>
    ELSE Append(IntToStr(n \div 10), StrOfDigit(n % 10))

\* int(s) for a non-empty string of decimal digits (leading zeros allowed)
RECURSIVE StrToInt(_)
StrToInt(s) ==
    IF Len(s) = 1
    THEN IntOfChar(s[1])
    ELSE StrToInt(SubSeq(s, 1, Len(s) - 1)) * 10 + IntOfChar(s[Len(s)])

\* a character variable as a string: '' is the empty string
CharStr(char) == IF char = "" THEN << >> ELSE <<char>>

\* a variant that writes the count only when it is above 2
encode_char_segment_gt2(char, counter) ==
    CharStr(char) \o (IF counter > 2 THEN IntToStr(counter) ELSE << >>)

\* char + (str(counter) if counter > 1 else '')
encode_char_segment(char, counter) ==
    CharStr(char) \o (IF counter > 1 THEN IntToStr(counter) ELSE << >>)

\* one iteration of the loop of encode on the character c
EncodeStep(st, c) ==
    IF c = st.prev_char
    THEN [st EXCEPT !.counter = @ + 1]
    ELSE [output |-> st.output \o encode_char_segment(st.prev_char, st.counter),
          prev_char |-> c,
          counter |-> 1]

\* the iterations of the loop of encode on text[lo..hi], in order; the range
\* is split in halves, and the first half is evaluated (by the test on its
\* counter, which always holds) before the second half starts, so that long
\* texts do not nest the evaluation deeply
RECURSIVE EncodeLoop(_, _, _, _)
EncodeLoop(text, st, lo, hi) ==
    IF lo > hi
    THEN st
    ELSE IF lo = hi
         THEN EncodeStep(st, text[lo])
         ELSE LET mid == (lo + hi) \div 2
                  half == EncodeLoop(text, st, lo, mid)
              IN  IF half.counter >= 0
                  THEN EncodeLoop(text, half, mid + 1, hi)
                  ELSE half

\* a variant of encode that forgets the final segment
encode_nofinal(text) ==
    LET st == EncodeLoop(text, [output |-> << >>, prev_char |-> "", counter |-> 0],
                         1, Len(text))
    IN  st.output

\* encode: the loop, then the final segment
encode(text) ==
    LET st == EncodeLoop(text, [output |-> << >>, prev_char |-> "", counter |-> 0],
                         1, Len(text))
    IN  st.output \o encode_char_segment(st.prev_char, st.counter)

\* a variant that repeats the character one time too few
decode_char_segment_less(char, counter) ==
    LET n == IF counter # << >> THEN StrToInt(counter) ELSE 1
    IN  IF char = "" THEN << >> ELSE [k \in 1..(n - 1) |-> char]

\* counter = int(counter) if counter != "" else 1
\* ''.join([char for _ in range(counter)])
decode_char_segment(char, counter) ==
    LET n == IF counter # << >> THEN StrToInt(counter) ELSE 1
    IN  IF char = "" THEN << >> ELSE [k \in 1..n |-> char]

\* a variant of the iteration of decode that keeps only the last digit of a count
DecodeStep_lastdigit(st, c) ==
    IF IsDigit(c)
    THEN [st EXCEPT !.counter = <<c>>]
    ELSE [output |-> st.output \o decode_char_segment(st.last_char, st.counter),
          last_char |-> c,
          counter |-> << >>]

\* one iteration of the loop of decode on the character c
DecodeStep(st, c) ==
    IF IsDigit(c)
    THEN [st EXCEPT !.counter = Append(@, c)]
    ELSE [output |-> st.output \o decode_char_segment(st.last_char, st.counter),
          last_char |-> c,
          counter |-> << >>]

\* the iterations of the loop of decode on text[lo..hi], in order, split in
\* halves as in EncodeLoop
RECURSIVE DecodeLoop(_, _, _, _)
DecodeLoop(text, st, lo, hi) ==
    IF lo > hi
    THEN st
    ELSE IF lo = hi
         THEN DecodeStep(st, text[lo])
         ELSE LET mid == (lo + hi) \div 2
                  half == DecodeLoop(text, st, lo, mid)
              IN  IF Len(half.counter) >= 0
                  THEN DecodeLoop(text, half, mid + 1, hi)
                  ELSE half

\* decode: the loop, then the final segment
decode(text) ==
    LET st == DecodeLoop(text, [output |-> << >>, last_char |-> "", counter |-> << >>],
                         1, Len(text))
    IN  st.output \o decode_char_segment(st.last_char, st.counter)

(***************************************************************************)
(* Diffie-Hellman simulation                                               *)
(***************************************************************************)
DefaultGenerator == 3
DefaultPrimeModulus == 136279841
CandidateLimit == 1000000

\* (x * y) % n for 0 <= x, y < n, three bits of y at a time, so that no
\* intermediate value leaves the 32-bit integers of the model checker
\* (n < 2^31 / 15); the first test evaluates x before the recursion starts
RECURSIVE MulLoop(_, _, _)
MulLoop(x, y, n) ==
    IF y = 0
    THEN 0
    ELSE (8 * MulLoop(x, y \div 8, n) + x * (y % 8)) % n

MulMod(x, y, n) == IF x = 0 THEN 0 ELSE MulLoop(x, y, n)

\* (generator ** power) % prime_modulus; Python computes the power exactly
\* and reduces it once, which gives the value of square-and-multiply
RECURSIVE PowMod(_, _, _)
PowMod(generator, power, prime_modulus) ==
    IF power = 0
    THEN 1 % prime_modulus
    ELSE LET h == PowMod(generator, power \div 2, prime_modulus)
             sq == MulMod(h, h, prime_modulus)
         IN  IF power % 2 = 1
             THEN MulMod(sq, generator % prime_modulus, prime_modulus)
             ELSE sq

produce_exchange_function(power, generator, prime_modulus) ==
    PowMod(generator, power, prime_modulus)

\* (3 ** l) % 136279841 and (3 ** (1000 * h)) % 136279841, computed once
LowPowers ==
    [l \in 0..999 |->
        produce_exchange_function(l, DefaultGenerator, DefaultPrimeModulus)]

HighPowers ==
    [h \in 0..999 |->
        produce_exchange_function(1000 * h, DefaultGenerator, DefaultPrimeModulus)]

\* exchange_func(power): generator and prime_modulus take their defaults.
\* For a power 1000 * h + l below 1000000 the value (3 ** power) % 136279841
\* is put together from the two factors 3 ** (1000 * h) and 3 ** l, so that
\* the 999999 candidates of a search can all be tried
exchange_func1(power) ==
    IF power \in 0..999999
    THEN MulMod(HighPowers[power \div 1000], LowPowers[power % 1000],
                DefaultPrimeModulus)
    ELSE produce_exchange_function(power, DefaultGenerator, DefaultPrimeModulus)

\* exchange_func(power, generator): prime_modulus takes its default
exchange_func2(power, generator) ==
    produce_exchange_function(power, generator, DefaultPrimeModulus)

\* the numbers random.randint(range_start, range_end) can return
range_start(num_of_digits) == 10 ^ (num_of_digits - 1)

range_end(num_of_digits) == (10 ^ num_of_digits) - 1

\* a variant in which party A raises its own output instead of B's
generate_keys_own_output(a_priv, b_priv) ==
    LET a_out == exchange_func1(a_priv)
        b_out == exchange_func1(b_priv)
        a_pub == exchange_func2(a_priv, a_out)
        b_pub == exchange_func2(b_priv, a_out)
    IN  [a_private_key |-> a_priv, b_private_key |-> b_priv,
         a_output |-> a_out, b_output |-> b_out,
         a_public_key |-> a_pub, b_public_key |-> b_pub,
         raised |-> (a_pub # b_pub)]

\* generate_keys without the time measurement
generate_keys(a_priv, b_priv) ==
    LET a_out == exchange_func1(a_priv)
        b_out == exchange_func1(b_priv)
        a_pub == exchange_func2(a_priv, b_out)
        b_pub == exchange_func2(b_priv, a_out)
    IN  [a_private_key |-> a_priv, b_private_key |-> b_priv,
         a_output |-> a_out, b_output |-> b_out,
         a_public_key |-> a_pub, b_public_key |-> b_pub,
         raised |-> (a_pub # b_pub)]

\* the two tests of the outer loop on one a_pk_candidate
OuterTest(a_pk_candidate, a_out, b_out, public_key) ==
    /\ exchange_func1(a_pk_candidate) = a_out
    /\ exchange_func2(a_pk_candidate, b_out) = public_key

\* the outer loop of derive_private_keys, for a_pk_candidate in
\* range(1, 1000000): the first candidate passing both tests, where the
\* inner loop runs and the outer loop breaks; 0 when the range is exhausted
OuterSearch(a_out, b_out, public_key) ==
    IF \E c \in 1..(CandidateLimit - 1) : OuterTest(c, a_out, b_out, public_key)
    THEN CHOOSE c \in 1..(CandidateLimit - 1) :
             /\ OuterTest(c, a_out, b_out, public_key)
             /\ \A d \in 1..(c - 1) : ~OuterTest(d, a_out, b_out, public_key)
    ELSE 0

\* a variant of the inner tests copied from the outer loop without swapping
\* the two outputs
InnerTest_copied(b_pk_candidate, a_out, b_out, public_key) ==
    /\ exchange_func1(b_pk_candidate) = a_out
    /\ exchange_func2(b_pk_candidate, b_out) = public_key

\* the two tests of the inner loop on one b_pk_candidate
InnerTest(b_pk_candidate, a_out, b_out, public_key) ==
    /\ exchange_func1(b_pk_candidate) = b_out
    /\ exchange_func2(b_pk_candidate, a_out) = public_key

\* the inner loop, for b_pk_candidate in range(1, 1000000): the first
\* candidate passing both tests, where the loop breaks; 0 when exhausted
InnerSearch(a_out, b_out, public_key) ==
    IF \E c \in 1..(CandidateLimit - 1) : InnerTest(c, a_out, b_out, public_key)
    THEN CHOOSE c \in 1..(CandidateLimit - 1) :
             /\ InnerTest(c, a_out, b_out, public_key)
             /\ \A d \in 1..(c - 1) : ~InnerTest(d, a_out, b_out, public_key)
    ELSE 0

\* what derive_private_keys leaves in the EavesdropData: the two candidates
\* and brute_forced, which is set only where the inner loop breaks
KeysFound(a_cand, b_cand) ==
    [a_pk_candidate |-> a_cand, b_pk_candidate |-> b_cand,
     brute_forced |-> (b_cand # 0)]

\* a variant whose outer loop breaks only when the inner loop has found a
\* b-candidate: the inner loop does not depend on the a-candidate, so when it
\* fails once it fails for every a-candidate and the outer loop runs out
derive_private_keys_until_found(a_out, b_out, public_key) ==
    LET a_cand == OuterSearch(a_out, b_out, public_key)
        b_cand == IF a_cand # 0 THEN InnerSearch(a_out, b_out, public_key) ELSE 0
    IN  KeysFound(IF b_cand # 0 THEN a_cand ELSE 0, b_cand)

\* a variant that reports the two candidates in the other order
derive_private_keys_reversed(a_out, b_out, public_key) ==
    LET a_cand == OuterSearch(a_out, b_out, public_key)
        b_cand == IF a_cand # 0 THEN InnerSearch(a_out, b_out, public_key) ELSE 0
    IN  KeysFound(b_cand, a_cand)

\* derive_private_keys on an EavesdropData(exchange_func, a_out, b_out, public_key)
derive_private_keys(a_out, b_out, public_key) ==
    LET a_cand == OuterSearch(a_out, b_out, public_key)
        b_cand == IF a_cand # 0 THEN InnerSearch(a_out, b_out, public_key) ELSE 0
    IN  KeysFound(a_cand, b_cand)

(***************************************************************************)
(* encode and decode applied to a text                                     *)
(***************************************************************************)
Symbols == {"A", "B"}

Digits == {"0", "1", "2"}

Strings(alphabet, maxlen) == UNION {[1..len -> alphabet] : len \in 0..maxlen}

\* no run of more than MaxCountDigits digits
ShortCounts(s) ==
    \A i \in 1..(Len(s) - MaxCountDigits) :
        \E k \in i..(i + MaxCountDigits) : ~IsDigit(s[k])

\* the strings of the notebook's own tests
TestText == <<"A", "A", "B", "C", "C", "C", "D", "E", "E", "E", "E">>

TestCode == <<"A", "2", "B", "C", "3", "D", "E", "4">>

InitRle ==
    /\ rle_input \in Strings(Symbols, MaxTextLen)
                       \cup {s \in Strings(Symbols \cup Digits, MaxEncLen) :
                                ShortCounts(s)}
                       \cup {TestText, TestCode}
    /\ rle_text = rle_input
    /\ rle_ops = << >>
    /\ CpbIdle /\ HIdle /\ PvIdle /\ DIdle

Encode ==
    /\ Len(rle_ops) < MaxOps
    /\ rle_text' = encode(rle_text)
    /\ rle_ops' = Append(rle_ops, "encode")
    /\ UNCHANGED rle_input

Decode ==
    /\ Len(rle_ops) < MaxOps
    /\ rle_text' = decode(rle_text)
    /\ rle_ops' = Append(rle_ops, "decode")
    /\ UNCHANGED rle_input

(***************************************************************************)
(* One round of the driver loop: generate_keys, then the eavesdropper      *)
(***************************************************************************)
KeySizes == 2..(IF MaxKeySize < 5 THEN MaxKeySize ELSE 5)

\* the random numbers of the given size that are drawn
RandomNumbers(num_of_digits) ==
    {n \in range_start(num_of_digits)..range_end(num_of_digits) :
        n < range_start(num_of_digits) + MaxDraws}

InitDh ==
    /\ key_size \in KeySizes
    /\ a_private_key = 0
    /\ b_private_key = 0
    /\ a_output = 0
    /\ b_output = 0
    /\ a_public_key = 0
    /\ b_public_key = 0
    /\ a_pk_found = 0
    /\ b_pk_found = 0
    /\ brute_forced = FALSE
    /\ break_time_set = FALSE
    /\ dpc = "generate"
    /\ CpbIdle /\ HIdle /\ PvIdle /\ RIdle

\* keys = generate_keys(key_size)
GenerateKeys ==
    /\ dpc = "generate"
    /\ \E a_priv \in RandomNumbers(key_size), b_priv \in RandomNumbers(key_size) :
          LET keys == generate_keys(a_priv, b_priv)
          IN  /\ a_private_key' = keys.a_private_key
              /\ b_private_key' = keys.b_private_key
              /\ a_output' = keys.a_output
              /\ b_output' = keys.b_output
              /\ a_public_key' = keys.a_public_key
              /\ b_public_key' = keys.b_public_key
              /\ dpc' = IF keys.raised THEN "raised" ELSE "eavesdrop"
    /\ UNCHANGED <<key_size, a_pk_found, b_pk_found, brute_forced, break_time_set>>

\* eavesdrop = EavesdropData(exchange function, keys[2], keys[3], keys[4])
\* eavesdrop.derive_private_keys()
DerivePrivateKeys ==
    /\ dpc = "eavesdrop"
    /\ \E found \in {derive_private_keys(a_output, b_output, a_public_key)} :
           /\ a_pk_found' = found.a_pk_candidate
           /\ b_pk_found' = found.b_pk_candidate
           /\ brute_forced' = found.brute_forced
    /\ break_time_set' = TRUE
    /\ dpc' = "derived"
    /\ UNCHANGED <<key_size, a_private_key, b_private_key, a_output, b_output,
                   a_public_key, b_public_key>>

(***************************************************************************)
(* derive_private_keys on eavesdropped data of any private keys            *)
(***************************************************************************)
\* EavesdropData(exchange function, keys[2], keys[3], keys[4]) for the keys
\* generate_keys produces from two private keys
EavesdropFor(a_priv, b_priv) ==
    LET keys == generate_keys(a_priv, b_priv)
    IN  <<keys.a_output, keys.b_output, keys.a_public_key>>

\* eavesdropped data whose public key is not the one of the two outputs
TamperedKey(data) == <<data[1], data[2], (data[3] + 1) % DefaultPrimeModulus>>

\* the data the eavesdropper is given: those of small private keys, those of
\* a private key just beyond the candidates range(1, 1000000) on either
\* side, and data with a public key that does not belong to the outputs
EavesdropInputs ==
    {EavesdropFor(a_priv, b_priv) : a_priv \in 1..MaxEavesKey,
                                    b_priv \in 1..MaxEavesKey}
      \cup {EavesdropFor(CandidateLimit, 5),
            EavesdropFor(5, CandidateLimit),
            TamperedKey(EavesdropFor(2, 3))}

InitEavesdrop ==
    /\ \E data \in EavesdropInputs :
          /\ a_output = data[1]
          /\ b_output = data[2]
          /\ a_public_key = data[3]
    /\ key_size = 0
    /\ a_private_key = 0
    /\ b_private_key = 0
    /\ b_public_key = 0
    /\ a_pk_found = 0
    /\ b_pk_found = 0
    /\ brute_forced = FALSE
    /\ break_time_set = FALSE
    /\ dpc = "eavesdrop"
    /\ CpbIdle /\ HIdle /\ PvIdle /\ RIdle

(***************************************************************************)
(* Specifications, one per notebook part                                   *)
(***************************************************************************)
NextCpb ==
    \/ CpbIterate /\ UNCHANGED <<hvars, pvvars, rvars, dvars>>
    \/ CpbRaise /\ UNCHANGED <<hvars, pvvars, rvars, dvars>>
    \/ CpbReturn /\ UNCHANGED <<hvars, pvvars, rvars, dvars>>

SpecCpb == InitCpb /\ [][NextCpb]_vars

\* the call keeps running until it returns or raises
SpecCpbFair == InitCpb /\ [][NextCpb]_vars /\ WF_vars(NextCpb)

NextHamming ==
    \/ CalcParityBits /\ UNCHANGED <<cpbvars, pvvars, rvars, dvars>>
    \/ PositionParityBits /\ UNCHANGED <<cpbvars, pvvars, rvars, dvars>>
    \/ CalculateParityValues /\ UNCHANGED <<cpbvars, pvvars, rvars, dvars>>
    \/ AddNoise /\ UNCHANGED <<cpbvars, pvvars, rvars, dvars>>
    \/ DetectCorrectError /\ UNCHANGED <<cpbvars, pvvars, rvars, dvars>>
    \/ RemoveParityBits /\ UNCHANGED <<cpbvars, pvvars, rvars, dvars>>

SpecHamming == InitHamming /\ [][NextHamming]_vars

NextPv ==
    \/ ParityValuesPass /\ UNCHANGED <<cpbvars, hvars, rvars, dvars>>

SpecPv == InitPv /\ [][NextPv]_vars

NextRle ==
    \/ Encode /\ UNCHANGED <<cpbvars, hvars, pvvars, dvars>>
    \/ Decode /\ UNCHANGED <<cpbvars, hvars, pvvars, dvars>>

SpecRle == InitRle /\ [][NextRle]_vars

NextDh ==
    \/ GenerateKeys /\ UNCHANGED <<cpbvars, hvars, pvvars, rvars>>
    \/ DerivePrivateKeys /\ UNCHANGED <<cpbvars, hvars, pvvars, rvars>>

SpecDh == InitDh /\ [][NextDh]_vars

NextEavesdrop ==
    \/ DerivePrivateKeys /\ UNCHANGED <<cpbvars, hvars, pvvars, rvars>>

SpecEavesdrop == InitEavesdrop /\ [][NextEavesdrop]_vars

(***************************************************************************)
(* Properties of the Hamming demo (SpecHamming)                            *)
(***************************************************************************)
\* the received code differs from the transmitted codeword in exactly k bits
BitErrors(k) ==
    /\ Len(received_code) = Len(hamming_code)
    /\ Cardinality(Diff(received_code, hamming_code)) = k

\* C1: for every non-empty data string, when exactly one bit of the
\* codeword was flipped (parity or data bit), correcting the received code
\* and removing the parity bits gives back the data; nothing raises on the way.
C1_SingleErrorRecovered ==
    (Len(original_data) >= 1 /\ BitErrors(1))
        => /\ hpc # "raised"
           /\ hpc = "done" => decoded_data = original_data

\* C1 witness: the run printed by the demo cell
C1_Witness ==
    /\ hpc = "done"
    /\ original_data = <<"1", "1", "0", "1">>
    /\ hamming_code = <<"1", "1", "0", "0", "1", "1", "0">>
    /\ received_code = <<"1", "1", "1", "0", "1", "1", "0">>
    /\ error_pos = 5
    /\ decoded_data = original_data

\* C10: every 1-bit and every 2-bit error of a codeword gives a non-zero
\* error position and the report "Error found".
C10_ErrorsDetected ==
    (hpc \in {"corrected", "done"} /\ (BitErrors(1) \/ BitErrors(2)))
        => /\ error_pos # 0
           /\ report = "Error found"

\* C10 witness: a 2-bit error whose error position lies beyond the code
C10_Witness ==
    /\ hpc = "corrected"
    /\ BitErrors(2)
    /\ error_pos > Len(received_code)
    /\ report = "Error found"

\* C11 as stated: for a received code equal to the codeword,
\* detect_correct_error computes error position 0, reports "No error
\* detected" and returns the code unchanged; and whatever it receives, what
\* it returns is the received code with at most one bit flipped.
C11_UnchangedOrOneFlip ==
    hpc \in {"corrected", "done"}
        => /\ BitErrors(0)
                 => /\ error_pos = 0
                    /\ report = "No error detected"
                    /\ corrected_code = hamming_code
           /\ Len(corrected_code) = Len(received_code)
           /\ Cardinality(Diff(corrected_code, received_code)) <= 1

\* the parity checks i whose XOR val the first loop finds to be 1
FailingChecks(code, pp) == {i \in 0..(pp - 1) : ParityOf(code, i, 1, 0) = 1}

\* the sum of 2^i over a set of check numbers
RECURSIVE SumPow2(_)
SumPow2(checks) ==
    IF checks = {}
    THEN 0
    ELSE LET i == CHOOSE i \in checks : TRUE
         IN  (2 ^ i) + SumPow2(checks \ {i})

\* the position, 1-based from the right end, of the single bit in which the
\* received code differs from the codeword
FlippedPosition ==
    Len(hamming_code) + 1
        - (CHOOSE i \in Diff(received_code, hamming_code) : TRUE)

\* C12: when the received code is the codeword with the bit at position e
\* (1-based from the right end) flipped, the computed error position, which
\* is the sum of 2^i over the failing parity checks i, equals e, and the
\* returned code is the transmitted codeword.
C12_ErrorPositionIsFlippedBit ==
    (hpc \in {"corrected", "done"} /\ BitErrors(1))
        => /\ error_pos = SumPow2(FailingChecks(received_code, p))
           /\ error_pos = FlippedPosition
           /\ corrected_code = hamming_code

\* C12 witness: the leftmost bit of a nine-bit codeword was flipped and found
C12_Witness ==
    /\ hpc = "corrected"
    /\ BitErrors(1)
    /\ Len(hamming_code) = 9
    /\ FlippedPosition = 9
    /\ error_pos = 9
    /\ corrected_code = hamming_code

\* a position (1-based from the right end) that is a power of two
IsPowerOfTwo(pos) == \E i \in 0..pos : 2 ^ i = pos

\* the positions of a code of n bits that are not parity positions
DataPositions(n) == {pos \in 1..n : ~IsPowerOfTwo(pos)}

\* C13: position_parity_bits(d, p) raises no IndexError, has length m + p,
\* holds "0" at the p positions 1, 2, 4, ..., 2^(p-1) from the right end,
\* which are all the power-of-two positions it has, and holds the data bits
\* at the other positions in their order: the k-th data bit from the right
\* at the k-th such position from the right, each data bit once.
C13_ParityLayout ==
    /\ positioned_data # IndexError
    /\ hpc \notin {"start", "position"}
          => LET n == Len(positioned_data)
                 m == Len(original_data)
             IN  /\ n = m + p
                 /\ \A i \in 0..(p - 1) :
                        /\ 2 ^ i <= n
                        /\ Index(positioned_data, -(2 ^ i)) = "0"
                 /\ Cardinality(DataPositions(n)) = m
                 /\ \A pos \in DataPositions(n) :
                        LET k == Cardinality({q \in DataPositions(n) : q <= pos})
                        IN  Index(positioned_data, -pos) = Index(original_data, -k)

\* C13 witness: five data bits placed among four parity placeholders
C13_Witness ==
    /\ hpc = "parity"
    /\ original_data = <<"1", "0", "1", "1", "0">>
    /\ p = 4
    /\ positioned_data = <<"1", "0", "0", "1", "1", "0", "0", "0", "0">>

\* the positions (1-based from the right end) of parity group i that hold "1"
OnesInGroup(code, i) ==
    {j \in 1..Len(code) : BitSet(j, i) /\ Index(code, -j) = "1"}

\* the XOR over parity group i, parity position included
GroupXor(code, i) == Cardinality(OnesInGroup(code, i)) % 2

\* C14: in the codeword, for every i in 0..p-1 the bit at position 2^i is
\* the XOR of the bits at the other positions whose index has bit i set, so
\* the XOR over every parity group is 0; the data "1101" gives "1100110".
C14_ParityGroupsEven ==
    hpc \notin {"start", "position", "parity"}
        => /\ \A i \in 0..(p - 1) :
                  /\ IntOfChar(Index(hamming_code, -(2 ^ i)))
                        = Cardinality(OnesInGroup(hamming_code, i) \ {2 ^ i}) % 2
                  /\ GroupXor(hamming_code, i) = 0
           /\ original_data = <<"1", "1", "0", "1">>
                  => hamming_code = <<"1", "1", "0", "0", "1", "1", "0">>

\* C14 witness: the codeword of the demo cell has just been computed
C14_Witness ==
    /\ hpc = "channel"
    /\ noise_count = 0
    /\ original_data = <<"1", "1", "0", "1">>
    /\ positioned_data = <<"1", "1", "0", "0", "1", "0", "0">>
    /\ hamming_code = <<"1", "1", "0", "0", "1", "1", "0">>

\* C15: without noise the pipeline round-trips: remove_parity_bits of the
\* codeword of d is d, of length n - p = m; and the demo run in which
\* add_noise did not act ends with the decoded data equal to the data.
C15_NoNoiseRoundTrip ==
    /\ hpc \notin {"start", "position", "parity"}
          => /\ remove_parity_bits(hamming_code, p) = original_data
             /\ Len(remove_parity_bits(hamming_code, p)) = Len(hamming_code) - p
    /\ (hpc = "done" /\ noise_count = 0)
          => /\ decoded_data = original_data
             /\ Len(decoded_data) = Len(hamming_code) - p

\* C15 witness: a run without noise has decoded five data bits
C15_Witness ==
    /\ hpc = "done"
    /\ noise_count = 0
    /\ original_data = <<"0", "1", "1", "0", "1">>
    /\ Len(hamming_code) = 9
    /\ decoded_data = original_data

\* C16: for a codeword with exactly one flipped bit, exactly one parity
\* check fails if and only if the flipped position is a power of two (a
\* parity bit); a flipped data bit makes at least two checks fail.
C16_OneFailingCheckIffParityBit ==
    (hpc \in {"corrected", "done"} /\ BitErrors(1))
        => LET failing == FailingChecks(received_code, p)
           IN  /\ (Cardinality(failing) = 1) <=> IsPowerOfTwo(FlippedPosition)
               /\ ~IsPowerOfTwo(FlippedPosition) => Cardinality(failing) >= 2
               /\ error_pos = SumPow2(failing)

\* C16 witness: the parity bit at position 4 was flipped and only check 2 fails
C16_Witness ==
    /\ hpc = "corrected"
    /\ BitErrors(1)
    /\ FlippedPosition = 4
    /\ FailingChecks(received_code, p) = {2}
    /\ error_pos = 4

\* C19 as stated: whatever bits of the received code are in error,
\* detect_correct_error returns a bit string of the same length n that
\* differs from the received code in at most one position.
C19_SameLengthOneFlip ==
    /\ corrected_code # IndexError
    /\ hpc \in {"corrected", "done"}
          => /\ Len(corrected_code) = Len(received_code)
             /\ \A i \in 1..Len(corrected_code) : corrected_code[i] \in Bit
             /\ Cardinality(Diff(received_code, corrected_code)) <= 1

\* the codeword of a data string, as the demo cell computes it
CodewordOf(data) ==
    LET pp == calculate_parity_bits(Len(data))
    IN  calculate_parity_values(position_parity_bits(data, pp), pp)

\* C20: for a fixed data length m, the codewords of any two distinct data
\* strings differ in at least 3 bit positions (hamming_code is compared
\* as it enters the channel; the noise does not change it).
C20_MinimumDistance3 ==
    (hpc = "channel" /\ noise_count = 0)
        => \A other \in BitStrings(Len(original_data)) :
               other # original_data
                   => Cardinality(Diff(hamming_code, CodewordOf(other))) >= 3

\* C20 witness: the codeword of the demo cell and another codeword of four
\* data bits at distance exactly 3
C20_Witness ==
    /\ hpc = "channel"
    /\ noise_count = 0
    /\ original_data = <<"1", "1", "0", "1">>
    /\ hamming_code = <<"1", "1", "0", "0", "1", "1", "0">>
    /\ \E other \in BitStrings(4) :
           Cardinality(Diff(hamming_code, CodewordOf(other))) = 3

\* C21: when exactly two distinct bits of the codeword were flipped, the
\* code detect_correct_error returns is not the transmitted codeword.
C21_TwoErrorsNotCorrected ==
    (hpc \in {"corrected", "done"} /\ BitErrors(2))
        => corrected_code # hamming_code

\* C21 witness: a 2-bit error was turned into another codeword, three bits
\* away from the transmitted one
C21_Witness ==
    /\ hpc = "corrected"
    /\ BitErrors(2)
    /\ Len(corrected_code) = Len(hamming_code)
    /\ Cardinality(Diff(corrected_code, hamming_code)) = 3
    /\ FailingChecks(corrected_code, p) = {}

\* C24: whatever position is drawn, add_noise turns a non-empty code into
\* a string of the same length that differs from it in exactly one
\* position, where the bit is inverted, and equals it everywhere else.
C24_NoiseFlipsOneBit ==
    [][noise_count' = noise_count + 1
          => /\ Len(received_code) >= 1
             /\ Len(received_code') = Len(received_code)
             /\ Cardinality(Diff(received_code', received_code)) = 1
             /\ \A i \in Diff(received_code', received_code) :
                    received_code'[i]
                        = StrOfDigit(1 - IntOfChar(received_code[i]))]_vars

\* C24 witness: add_noise has turned the codeword of the demo cell into the
\* received code the demo printed
C24_Witness ==
    /\ hpc = "channel"
    /\ noise_count = 1
    /\ hamming_code = <<"1", "1", "0", "0", "1", "1", "0">>
    /\ received_code = <<"1", "1", "1", "0", "1", "1", "0">>

(***************************************************************************)
(* Properties of calculate_parity_values on any bit string (SpecPv)        *)
(***************************************************************************)
\* the bit string is the codeword of the data bits it holds
IsCodeword(code, pp) == code = CodewordOf(remove_parity_bits(code, pp))

\* C22: calculate_parity_values is an involution on the bit strings of
\* length m + p: two passes give back the string (each pass XORs the content
\* of the parity position into the new parity value); one pass over a
\* codeword sets every parity bit to "0" and leaves the data bits alone.
C22_ParityValuesInvolution ==
    /\ pv_passes % 2 = 0 => pv_code = pv_input
    /\ pv_passes % 2 = 1 => pv_code = calculate_parity_values(pv_input, pv_p)
    /\ (pv_passes = 1 /\ IsCodeword(pv_input, pv_p))
          => /\ \A i \in 0..(pv_p - 1) : Index(pv_code, -(2 ^ i)) = "0"
             /\ pv_code = position_parity_bits(
                              remove_parity_bits(pv_input, pv_p), pv_p)

\* C22 witness: two passes over the codeword of the demo cell gave it back,
\* and one pass does not (the function is not idempotent)
C22_Witness ==
    /\ pv_passes = 2
    /\ pv_input = <<"1", "1", "0", "0", "1", "1", "0">>
    /\ pv_code = pv_input
    /\ calculate_parity_values(pv_input, pv_p)
          = <<"1", "1", "0", "0", "1", "0", "0">>

(***************************************************************************)
(* Properties of calculate_parity_bits (SpecCpb)                           *)
(***************************************************************************)
\* p satisfies 2^p >= m + p + 1 and no smaller number does
IsMinimalParity(m, pp) ==
    /\ 2 ^ pp >= m + pp + 1
    /\ \A q \in 0..(pp - 1) : 2 ^ q < m + q + 1

\* the number of parity bits m data bits need
NeededParityBits(m) == CHOOSE q \in 0..30 : IsMinimalParity(m, q)

\* C5: for m in 0..1013 the function returns (it does not raise), and what it
\* returns is the minimum p with 2^p >= m + p + 1; for m = 4 it returns 3.
C5_MinimalParityBits ==
    /\ (cpb_pc = "raised" /\ cpb_m >= 0) => cpb_m > 1013
    /\ (cpb_pc = "returned" /\ cpb_m \in 0..1013)
          => IsMinimalParity(cpb_m, cpb_p)
    /\ (cpb_pc = "returned" /\ cpb_m = 4) => cpb_p = 3

\* C5 witness: calculate_parity_bits(4) has returned 3
C5_Witness ==
    /\ cpb_pc = "returned"
    /\ cpb_m = 4
    /\ cpb_p = 3

\* C6: the function raises exactly when more than 10 parity bits are needed,
\* which is exactly when m >= 1014; when it returns, m <= 1013 and the
\* result is at most 10.
C6_RaisesExactlyAbove10 ==
    cpb_pc \in {"raised", "returned"}
        => /\ (cpb_pc = "raised") <=> (NeededParityBits(cpb_m) > 10)
           /\ (cpb_pc = "raised") <=> (cpb_m >= 1014)
           /\ cpb_pc = "returned" => (cpb_m <= 1013 /\ cpb_p <= 10)

\* C6 witness: the smallest m that raises
C6_Witness ==
    /\ cpb_pc = "raised"
    /\ cpb_m = 1014

\* C18: calculate_parity_bits terminates for every m >= 0: the loop body
\* runs at most 11 times, and the call ends by returning or by raising.
C18_TerminatesWithin11 ==
    /\ [](cpb_iters <= 11)
    /\ <>(cpb_pc \in {"returned", "raised"})

\* C18 witness: a call that needs twelve parity bits has raised in the
\* eleventh iteration
C18_Witness ==
    /\ cpb_pc = "raised"
    /\ cpb_m = 2037
    /\ cpb_p = 11
    /\ cpb_iters = 11

(***************************************************************************)
(* Properties of encode / decode (SpecRle)                                 *)
(***************************************************************************)
DigitFree(s) == \A i \in 1..Len(s) : ~IsDigit(s[i])

\* a sequence of non-digit symbols, each possibly followed by digits
ValidEncoded(e) == e = << >> \/ ~IsDigit(e[1])

\* the last position of the segment that starts with the symbol at i
SegEnd(e, i) ==
    CHOOSE j \in i..Len(e) :
        /\ \A k \in (i + 1)..j : IsDigit(e[k])
        /\ j = Len(e) \/ ~IsDigit(e[j + 1])

\* the digits that follow the symbol at i
CountOf(e, i) == SubSeq(e, i + 1, SegEnd(e, i))

\* the value of a decimal numeral
RECURSIVE DecimalValue(_)
DecimalValue(d) ==
    IF d = << >>
    THEN 0
    ELSE IntOfChar(Head(d)) * (10 ^ (Len(d) - 1)) + DecimalValue(Tail(d))

\* the last position of the maximal run of identical characters starting at i
RunEnd(s, i) ==
    CHOOSE j \in i..Len(s) :
        /\ \A k \in i..j : s[k] = s[i]
        /\ j = Len(s) \/ s[j + 1] # s[i]

\* run by run: the character, then the run length when it is above 1
RECURSIVE RunLengthForm(_, _)
RunLengthForm(s, i) ==
    IF i > Len(s)
    THEN << >>
    ELSE LET j == RunEnd(s, i)
             n == j - i + 1
         IN  <<s[i]>> \o (IF n > 1 THEN IntToStr(n) ELSE << >>)
                      \o RunLengthForm(s, j + 1)

\* segment by segment: n copies of a symbol with the number n, one copy of a
\* symbol without a number
RECURSIVE Expansion(_, _)
Expansion(e, i) ==
    IF i > Len(e)
    THEN << >>
    ELSE LET j == SegEnd(e, i)
             n == IF j > i THEN DecimalValue(CountOf(e, i)) ELSE 1
         IN  [k \in 1..n |-> e[i]] \o Expansion(e, j + 1)

\* no segment carries the count 0 or 1
NoSmallCounts(e) ==
    \A i \in 1..Len(e) :
        (~IsDigit(e[i]) /\ CountOf(e, i) # << >>)
            => DecimalValue(CountOf(e, i)) > 1

\* adjacent segments carry different characters
AdjacentDiffer(e) ==
    \A i \in 1..Len(e) :
        (~IsDigit(e[i]) /\ SegEnd(e, i) < Len(e))
            => e[SegEnd(e, i) + 1] # e[i]

\* every count is written without a leading zero
NoLeadingZeros(e) ==
    \A i \in 1..Len(e) :
        (~IsDigit(e[i]) /\ CountOf(e, i) # << >>) => CountOf(e, i)[1] # "0"

\* C2: decode(encode(s)) = s for every digit-free string s, the empty one
\* included.
C2_DecodeEncode ==
    (rle_ops = <<"encode", "decode">> /\ DigitFree(rle_input))
        => rle_text = rle_input

\* C2 witness: a text with a run of ten and a single character went through
\* encode and decode
C2_Witness ==
    /\ rle_ops = <<"encode", "decode">>
    /\ rle_input = [k \in 1..MaxTextLen |-> IF k = 1 THEN "B" ELSE "A"]
    /\ rle_text = rle_input

\* C3 as stated: encode(decode(e)) = e for every valid encoded string e.
C3_EncodeDecodeAnyValid ==
    (rle_ops = <<"decode", "encode">> /\ ValidEncoded(rle_input))
        => rle_text = rle_input

\* the encoded strings that encode itself produces
Canonical(e) ==
    /\ ValidEncoded(e)
    /\ NoSmallCounts(e)
    /\ NoLeadingZeros(e)
    /\ AdjacentDiffer(e)

\* C3 amended: encode(decode(e)) = e for every valid encoded string e in
\* which every count is at least 2 and has no leading zero and adjacent
\* segments carry different symbols.
C3_EncodeDecodeCanonical ==
    (rle_ops = <<"decode", "encode">> /\ Canonical(rle_input))
        => rle_text = rle_input

\* C3 witness: a canonical string with a two-digit count went through
\* decode and encode
C3_Witness ==
    /\ rle_ops = <<"decode", "encode">>
    /\ rle_input = <<"A", "1", "0", "B">>
    /\ rle_text = rle_input

\* C7: for a digit-free s, encode(s) lists the maximal runs of s in order,
\* each as its character followed by its length when the length is above 1;
\* no count 0 or 1 appears, adjacent segments differ, and
\* encode("AABCCCDEEEE") = "A2BC3DE4".
C7_EncodeRuns ==
    (rle_ops = <<"encode">> /\ DigitFree(rle_input))
        => /\ rle_text = RunLengthForm(rle_input, 1)
           /\ NoSmallCounts(rle_text)
           /\ AdjacentDiffer(rle_text)
           /\ rle_input = TestText => rle_text = TestCode

\* C7 witness: the notebook's test string has been encoded
C7_Witness ==
    /\ rle_ops = <<"encode">>
    /\ rle_input = TestText
    /\ rle_text = TestCode

\* C8: for a valid encoded string, decode gives, segment by segment, n
\* copies of a symbol followed by the number n (of any number of digits) and
\* one copy of a symbol followed by no number; decode("A2BC3DE4") =
\* "AABCCCDEEEE".
C8_DecodeExpands ==
    (rle_ops = <<"decode">> /\ ValidEncoded(rle_input))
        => /\ rle_text = Expansion(rle_input, 1)
           /\ rle_input = TestCode => rle_text = TestText

\* C8 witness: a two-digit count has been decoded
C8_Witness ==
    /\ rle_ops = <<"decode">>
    /\ rle_input = <<"A", "1", "2", "B">>
    /\ Len(rle_text) = 13

(***************************************************************************)
(* Properties of the Diffie-Hellman simulation (SpecDh)                    *)
(***************************************************************************)
\* C4: whatever private exponents are drawn, the key A derives from B's
\* output equals the key B derives from A's output, and generate_keys does
\* not raise "Different public keys".
C4_SameSharedKey ==
    /\ dpc # "raised"
    /\ dpc \in {"eavesdrop", "derived"}
          => /\ a_public_key = b_public_key
             /\ a_public_key = exchange_func2(a_private_key, b_output)
             /\ b_public_key = exchange_func2(b_private_key, a_output)

\* C4 witness: two different exponents gave two different outputs and one key
C4_Witness ==
    /\ dpc = "eavesdrop"
    /\ a_private_key # b_private_key
    /\ a_output # b_output
    /\ a_public_key = b_public_key

\* C9: with both private keys in 1..999999 the search reports a pair
\* (a', b'), each the first candidate from 1 upwards that reproduces the
\* party's output, and both reproduce the shared key from the other output.
C9_BruteForceFinds ==
    (/\ dpc = "derived"
     /\ a_private_key \in 1..(CandidateLimit - 1)
     /\ b_private_key \in 1..(CandidateLimit - 1))
        => /\ brute_forced
           /\ exchange_func1(a_pk_found) = a_output
           /\ exchange_func1(b_pk_found) = b_output
           /\ exchange_func2(a_pk_found, b_output) = a_public_key
           /\ exchange_func2(b_pk_found, a_output) = a_public_key
           /\ \A c \in 1..(a_pk_found - 1) : exchange_func1(c) # a_output
           /\ \A c \in 1..(b_pk_found - 1) : exchange_func1(c) # b_output

\* C9 witness: the search has reported a pair for two different keys
C9_Witness ==
    /\ dpc = "derived"
    /\ brute_forced
    /\ a_private_key # b_private_key
    /\ a_pk_found >= 10
    /\ b_pk_found >= 10
    /\ break_time_set

\* C17: the pair of exponents the search reports is the pair of private keys
\* that generate_keys drew: a' = a_private_key and b' = b_private_key.
C17_DerivedKeysAreGenerated ==
    dpc = "derived"
        => /\ brute_forced
           /\ a_pk_found = a_private_key
           /\ b_pk_found = b_private_key

\* C17 witness: the search has reported two different three-digit keys
C17_Witness ==
    /\ dpc = "derived"
    /\ key_size = 3
    /\ a_private_key = 105
    /\ b_private_key = 100
    /\ a_pk_found = 105
    /\ b_pk_found = 100

(***************************************************************************)
(* Properties of derive_private_keys on any data (SpecEavesdrop)           *)
(***************************************************************************)
\* some candidate of range(1, 1000000) reproduces the output
Reproducible(output) ==
    \E c \in 1..(CandidateLimit - 1) : exchange_func1(c) = output

\* some a-candidate passes the two tests of the outer loop
AMatches ==
    \E c \in 1..(CandidateLimit - 1) :
        OuterTest(c, a_output, b_output, a_public_key)

\* C23: derive_private_keys ends (without raising) with break_time set also
\* when no candidate reproduces a_output, or when an a-candidate matches
\* and no b-candidate reproduces b_output, and it reports no keys then; the
\* outer search stops at the first a-candidate that matches (that passes the
\* two tests of the outer loop) whether or not the inner search succeeded.
C23_NoMatchReportsNothing ==
    dpc = "derived"
        => /\ break_time_set
           /\ IF ~Reproducible(a_output)
              THEN /\ ~brute_forced
                   /\ a_pk_found = 0
                   /\ b_pk_found = 0
              ELSE IF AMatches
              THEN /\ OuterTest(a_pk_found, a_output, b_output, a_public_key)
                   /\ \A d \in 1..(a_pk_found - 1) :
                          ~OuterTest(d, a_output, b_output, a_public_key)
                   /\ ~Reproducible(b_output)
                         => /\ ~brute_forced
                            /\ b_pk_found = 0
              ELSE /\ ~brute_forced
                   /\ a_pk_found = 0
                   /\ b_pk_found = 0

\* C23 witness: the a-candidate 5 matched, no b-candidate did (the private
\* key of B is 1000000), and the search ended without reporting keys
C23_Witness ==
    /\ dpc = "derived"
    /\ break_time_set
    /\ ~brute_forced
    /\ a_pk_found = 5
    /\ b_pk_found = 0
    /\ b_output = exchange_func1(CandidateLimit)

====
